---- MODULE Spec2Model ----
(***************************************************************************)
(* Model of scripts/send_task.py: the task producer of the file-based     *)
(* messaging directory.  Each producer is one run of main(): it parses    *)
(* its arguments, calls send_task (load config, validate role, build the  *)
(* task, mkdir, open/dump/close the task file) and reports the outcome.   *)
(* Several producers run concurrently against one file system; what a     *)
(* reader polling the tasks directory finds is the state of that file      *)
(* system at the moment it looks.                                          *)
(***************************************************************************)
EXTENDS Integers, FiniteSets, Sequences, TLC

\* ---------------------------------------------------------------- bounds
MaxProducers == 2
MaxIds == 2

Procs == 1..MaxProducers

\* uuid.uuid4() draws a random identifier; nothing in the code excludes a
\* repeated draw.  The model draws from a small pool.
UuidPool == <<"u1", "u2", "u3", "u4">>
TaskIds == {UuidPool[i] : i \in 1..MaxIds}

\* datetime.utcnow().isoformat()
Timestamps == {"t1"}

\* ------------------------------------------------------- argument domains
None == "None"
Projects == {"demo", "bare", "ghost"}
RoleArgs == {"builder", "reviewer"}
DescriptionPool == <<"d1", "d2", "d3", "d4">>
PayloadFileArgs == {None, "over.json", "extra.json", "bad.json", "missing.json"}

\* Command lines a producer may be started with.  Every producer brings its
\* own description text.  Producer 1 ranges over the whole space of the
\* other arguments; the further producers, which are there for the
\* interleavings on the shared directory, range over the calls against the
\* configured project without a payload file.
ArgSpace(p) ==
    IF p = 1
    THEN [project : Projects, role : RoleArgs,
          description : {DescriptionPool[p]}, payload_file : PayloadFileArgs]
    ELSE [project : {"demo"}, role : RoleArgs,
          description : {DescriptionPool[p]}, payload_file : {None}]

\* ------------------------------------------------- external collaborators
\* Project configurations on disk: "demo" is complete, "bare" has no
\* enabled_roles key, "ghost" has no configuration at all.
Configs ==
    [demo |-> [enabled_roles |-> <<"architect", "builder">>,
               messaging |-> [base_dir |-> "mail"]],
     bare |-> [messaging |-> [base_dir |-> "mail"]]]

\* orchestrator.utils.config_loader.load_config_by_project_name
load_config_by_project_name(project) ==
    IF project \in DOMAIN Configs
    THEN [ok |-> TRUE, config |-> Configs[project]]
    ELSE [ok |-> FALSE, err |-> "ConfigNotFoundError"]

\* Payload files a caller may name.  "bad.json" exists but is not JSON,
\* "missing.json" does not exist.
PayloadStore ==
    [over |-> [description |-> "forged-description", task_id |-> "forged-id",
               to |-> "forged-role", type |-> "response",
               project |-> "forged-project", from |-> "forged-from",
               timestamp |-> "forged-time"],
     extra |-> [priority |-> "high"]]

\* open(payload_file, "r") followed by json.load(f)
json_load(payload_file) ==
    CASE payload_file = "over.json"  -> [ok |-> TRUE, payload |-> PayloadStore.over]
      [] payload_file = "extra.json" -> [ok |-> TRUE, payload |-> PayloadStore.extra]
      [] payload_file = "bad.json"   -> [ok |-> FALSE, err |-> "JSONDecodeError"]
      [] OTHER                       -> [ok |-> FALSE, err |-> "FileNotFoundError"]

\* ------------------------------------------------------------ pure helpers
\* Python's `x in list`
In(x, list) == \E i \in 1..Len(list) : list[i] = x

\* dict.get(key, default) for the one key send_task reads this way
get_enabled_roles(config) ==
    IF "enabled_roles" \in DOMAIN config THEN config.enabled_roles ELSE <<>>

\* dict.update with the precedence reversed: existing keys are kept
dict_update_keep_self(self, other) ==
    [k \in (DOMAIN self) \cup (DOMAIN other) |->
        IF k \in DOMAIN self THEN self[k] ELSE other[k]]

\* dict.update(other): every key of other is written over self
dict_update(self, other) ==
    [k \in (DOMAIN self) \cup (DOMAIN other) |->
        IF k \in DOMAIN other THEN other[k] ELSE self[k]]

\* Python truthiness of the payload_file argument
Truthy(payload_file) == payload_file \notin {None, ""}

\* create_task_json merging the payload file into the task itself
\* (task.update(payload)) instead of into task["payload"]
create_task_json_update_task(project, role, description, payload_file, task_id, timestamp) ==
    LET task == [task_id |-> task_id,
                 timestamp |-> timestamp,
                 from |-> "user",
                 to |-> role,
                 type |-> "request",
                 project |-> project,
                 payload |-> [description |-> description]]
    IN  IF Truthy(payload_file)
        THEN LET loaded == json_load(payload_file)
             IN  IF loaded.ok
                 THEN [ok |-> TRUE,
                       task |-> [k \in (DOMAIN task) \cup (DOMAIN loaded.payload) |->
                                    IF k \in DOMAIN loaded.payload /\ k # "payload"
                                    THEN loaded.payload[k] ELSE task[k]]]
                 ELSE [ok |-> FALSE, err |-> loaded.err]
        ELSE [ok |-> TRUE, task |-> task]

\* create_task_json, with the two values it draws from the environment
\* (uuid4 and the clock) as parameters.
create_task_json(project, role, description, payload_file, task_id, timestamp) ==
    LET task == [task_id |-> task_id,
                 timestamp |-> timestamp,
                 from |-> "user",
                 to |-> role,
                 type |-> "request",
                 project |-> project,
                 payload |-> [description |-> description]]
    IN  IF Truthy(payload_file)
        THEN LET loaded == json_load(payload_file)
             IN  IF loaded.ok
                 THEN [ok |-> TRUE,
                       task |-> [task EXCEPT !.payload =
                                    dict_update(task.payload, loaded.payload)]]
                 ELSE [ok |-> FALSE, err |-> loaded.err]
        ELSE [ok |-> TRUE, task |-> task]

\* Path(base_dir) / "tasks"
tasks_dir_of(config) == <<config.messaging.base_dir, "tasks">>

\* a task file name that does not depend on the task id
task_file_fixed_name(config, task) == Append(tasks_dir_of(config), "task.json")

\* tasks_dir / f"{task['task_id']}.json"
task_file_of(config, task) == Append(tasks_dir_of(config), task.task_id \o ".json")

Parent(path) == SubSeq(path, 1, Len(path) - 1)
Prefixes(path) == {SubSeq(path, 1, n) : n \in 1..Len(path)}

\* ------------------------------------------------------------------ state
VARIABLES
    pc,        \* pc[p]: position of producer p inside main / send_task
    args,      \* args[p]: the parsed command line of producer p
    config,    \* config[p]: send_task's local `config`
    task,      \* task[p]: send_task's local `task`
    result,    \* result[p]: value returned by send_task
    raised,    \* raised[p]: exception that left send_task
    stdout,    \* stdout[p]: what main printed on standard output
    stderr,    \* stderr[p]: what main printed on standard error
    exitcode,  \* exitcode[p]: exit status of the process
    dirs,      \* directories that exist
    files      \* files[path]: what the file at path currently holds

vars == <<pc, args, config, task, result, raised, stdout, stderr, exitcode,
          dirs, files>>

NoArgs == [project |-> None, role |-> None, description |-> None,
           payload_file |-> None]
NoConfig == [missing |-> TRUE]
NoTask == [task_id |-> None]
\* exitcode[p] is <<>> while the process runs and <<status>> once it exited
Running == <<>>

\* The directory every configured project uses for its task files.
TheTasksDir == <<"mail", "tasks">>

\* A file holds the bytes of the records dumped into it since it was last
\* truncated (`data`) and is empty, partly written or written in full.
EmptyFile == [written |-> "empty", data |-> {}]

Init ==
    /\ pc = [p \in Procs |-> "start"]
    /\ args = [p \in Procs |-> NoArgs]
    /\ config = [p \in Procs |-> NoConfig]
    /\ task = [p \in Procs |-> NoTask]
    /\ result = [p \in Procs |-> None]
    /\ raised = [p \in Procs |-> None]
    /\ stdout = [p \in Procs |-> <<>>]
    /\ stderr = [p \in Procs |-> <<>>]
    /\ exitcode = [p \in Procs |-> Running]
    /\ dirs = {}
    /\ files = << >>

\* An exception leaves send_task and reaches the except clause of main.
Raise(p, err) ==
    /\ raised' = [raised EXCEPT ![p] = err]
    /\ pc' = [pc EXCEPT ![p] = "except"]

WriteFile(path, value) ==
    files' = [f \in (DOMAIN files) \cup {path} |->
                 IF f = path THEN value ELSE files[f]]

\* ---------------------------------------------------------------- actions
\* main: parser.parse_args()
main_parse_args(p) ==
    /\ pc[p] = "start"
    /\ \E a \in ArgSpace(p) : args' = [args EXCEPT ![p] = a]
    /\ pc' = [pc EXCEPT ![p] = "load"]
    /\ UNCHANGED <<config, task, result, raised, stdout, stderr, exitcode,
                   dirs, files>>

\* send_task swallowing the loader's error and going on with a default config
send_task_load_config_swallow(p) ==
    /\ pc[p] = "load"
    /\ LET loaded == load_config_by_project_name(args[p].project)
       IN  config' = [config EXCEPT ![p] =
                         IF loaded.ok THEN loaded.config ELSE Configs.demo]
    /\ pc' = [pc EXCEPT ![p] = "validate"]
    /\ UNCHANGED <<args, task, result, raised, stdout, stderr, exitcode,
                   dirs, files>>

\* send_task: config = load_config_by_project_name(project, config_dir)
send_task_load_config(p) ==
    /\ pc[p] = "load"
    /\ LET loaded == load_config_by_project_name(args[p].project)
       IN  IF loaded.ok
           THEN /\ config' = [config EXCEPT ![p] = loaded.config]
                /\ pc' = [pc EXCEPT ![p] = "validate"]
                /\ UNCHANGED raised
           ELSE /\ Raise(p, loaded.err)
                /\ UNCHANGED config
    /\ UNCHANGED <<args, task, result, stdout, stderr, exitcode,
                   dirs, files>>

\* send_task without the enabled_roles check
send_task_validate_role_skipped(p) ==
    /\ pc[p] = "validate"
    /\ pc' = [pc EXCEPT ![p] = "create"]
    /\ UNCHANGED <<args, config, task, result, raised, stdout, stderr,
                   exitcode, dirs, files>>

\* send_task: the enabled_roles check
send_task_validate_role(p) ==
    /\ pc[p] = "validate"
    /\ IF In(args[p].role, get_enabled_roles(config[p]))
       THEN /\ pc' = [pc EXCEPT ![p] = "create"]
            /\ UNCHANGED raised
       ELSE Raise(p, "ValueError: Invalid role")
    /\ UNCHANGED <<args, config, task, result, stdout, stderr, exitcode,
                   dirs, files>>

\* send_task creating the tasks directory before it builds the task
send_task_create_task_mkdir_first(p) ==
    /\ pc[p] = "create"
    /\ dirs' = dirs \cup Prefixes(tasks_dir_of(config[p]))
    /\ \E task_id \in TaskIds, timestamp \in Timestamps :
          LET created == create_task_json(args[p].project, args[p].role,
                                          args[p].description,
                                          args[p].payload_file,
                                          task_id, timestamp)
          IN  IF created.ok
              THEN /\ task' = [task EXCEPT ![p] = created.task]
                   /\ pc' = [pc EXCEPT ![p] = "mkdir"]
                   /\ UNCHANGED raised
              ELSE /\ Raise(p, created.err)
                   /\ UNCHANGED task
    /\ UNCHANGED <<args, config, result, stdout, stderr, exitcode,
                   files>>

\* send_task: task = create_task_json(project, role, description, payload_file)
send_task_create_task(p) ==
    /\ pc[p] = "create"
    /\ \E task_id \in TaskIds, timestamp \in Timestamps :
          LET created == create_task_json(args[p].project, args[p].role,
                                          args[p].description,
                                          args[p].payload_file,
                                          task_id, timestamp)
          IN  IF created.ok
              THEN /\ task' = [task EXCEPT ![p] = created.task]
                   /\ pc' = [pc EXCEPT ![p] = "mkdir"]
                   /\ UNCHANGED raised
              ELSE /\ Raise(p, created.err)
                   /\ UNCHANGED task
    /\ UNCHANGED <<args, config, result, stdout, stderr, exitcode,
                   dirs, files>>

\* send_task: tasks_dir.mkdir(parents=True, exist_ok=True)
send_task_mkdir(p) ==
    /\ pc[p] = "mkdir"
    /\ dirs' = dirs \cup Prefixes(tasks_dir_of(config[p]))
    /\ pc' = [pc EXCEPT ![p] = "open"]
    /\ UNCHANGED <<args, config, task, result, raised, stdout, stderr,
                   exitcode, files>>

\* send_task: open(task_file, "w") creates the file or truncates it
send_task_open(p) ==
    /\ pc[p] = "open"
    /\ \/ /\ WriteFile(task_file_of(config[p], task[p]), EmptyFile)
          /\ pc' = [pc EXCEPT ![p] = "dump"]
          /\ UNCHANGED raised
       \/ /\ Raise(p, "OSError")
          /\ UNCHANGED files
    /\ UNCHANGED <<args, config, task, result, stdout, stderr, exitcode,
                   dirs>>

\* send_task: json.dump(task, f, indent=2).  The text goes through the
\* file object's buffer: part of it may reach the file before the close.
send_task_dump(p) ==
    /\ pc[p] = "dump"
    /\ LET path == task_file_of(config[p], task[p])
       IN  \/ /\ WriteFile(path, [written |-> "partial",
                                  data |-> files[path].data \cup {task[p]}])
              /\ pc' = [pc EXCEPT ![p] = "close"]
              /\ UNCHANGED raised
           \/ /\ pc' = [pc EXCEPT ![p] = "close"]
              /\ UNCHANGED <<files, raised>>
           \/ /\ WriteFile(path, [written |-> "partial",
                                  data |-> files[path].data \cup {task[p]}])
              /\ Raise(p, "OSError")
    /\ UNCHANGED <<args, config, task, result, stdout, stderr, exitcode,
                   dirs>>

\* send_task: leaving the with block flushes and closes the file, then
\* return task["task_id"]
send_task_close_return(p) ==
    /\ pc[p] = "close"
    /\ LET path == task_file_of(config[p], task[p])
       IN  WriteFile(path, [written |-> "full",
                            data |-> files[path].data \cup {task[p]}])
    /\ result' = [result EXCEPT ![p] = task[p].task_id]
    /\ pc' = [pc EXCEPT ![p] = "print"]
    /\ UNCHANGED <<args, config, task, raised, stdout, stderr, exitcode,
                   dirs>>

\* main: print(f"Task {task_id} enqueued for role ... in project ...")
main_print_success(p) ==
    /\ pc[p] = "print"
    /\ stdout' = [stdout EXCEPT ![p] =
                     <<"Task", result[p], "enqueued for role", args[p].role,
                       "in project", args[p].project>>]
    /\ exitcode' = [exitcode EXCEPT ![p] = <<0>>]
    /\ pc' = [pc EXCEPT ![p] = "exit"]
    /\ UNCHANGED <<args, config, task, result, raised, stderr,
                   dirs, files>>

\* main reporting the error without sys.exit(1)
main_except_no_exit(p) ==
    /\ pc[p] = "except"
    /\ stderr' = [stderr EXCEPT ![p] = <<"Error:", raised[p]>>]
    /\ exitcode' = [exitcode EXCEPT ![p] = <<0>>]
    /\ pc' = [pc EXCEPT ![p] = "exit"]
    /\ UNCHANGED <<args, config, task, result, raised, stdout,
                   dirs, files>>

\* main: except Exception as e: print(f"Error: {e}", file=sys.stderr); sys.exit(1)
main_except(p) ==
    /\ pc[p] = "except"
    /\ stderr' = [stderr EXCEPT ![p] = <<"Error:", raised[p]>>]
    /\ exitcode' = [exitcode EXCEPT ![p] = <<1>>]
    /\ pc' = [pc EXCEPT ![p] = "exit"]
    /\ UNCHANGED <<args, config, task, result, raised, stdout,
                   dirs, files>>

\* What a process listing directory d finds there (os.listdir): every
\* file that exists under d at that moment, whatever was written to it.
ListDir(d) == {f \in DOMAIN files : Parent(f) = d}

Next ==
    \/ \E p \in Procs : main_parse_args(p)
    \/ \E p \in Procs : send_task_load_config(p)
    \/ \E p \in Procs : send_task_validate_role(p)
    \/ \E p \in Procs : send_task_create_task(p)
    \/ \E p \in Procs : send_task_mkdir(p)
    \/ \E p \in Procs : send_task_open(p)
    \/ \E p \in Procs : send_task_dump(p)
    \/ \E p \in Procs : send_task_close_return(p)
    \/ \E p \in Procs : main_print_success(p)
    \/ \E p \in Procs : main_except(p)

Spec == Init /\ [][Next]_vars

\* ------------------------------------------------- vocabulary of the claims
InvalidRoleError == "ValueError: Invalid role"
ConfigNotFoundError == "ConfigNotFoundError"

\* A step of producer p; a step that leaves the file system alone.
StepOf(p) == pc'[p] # pc[p]
FsUnchanged == dirs' = dirs /\ files' = files

\* The producers whose call drew the task id T.
Generators(T) == {p \in Procs : task[p].task_id = T}

\* <base_dir>/tasks/pending/ of the directory layout
pending_dir_of(cfg) == Append(tasks_dir_of(cfg), "pending")

Returned(p) == result[p] # None

\* C1: a reader polling the tasks directory never finds a file under its
\* final name <task_id>.json that is empty or partly written.
C1_NeverSeenPartial ==
    \A f \in ListDir(TheTasksDir) : files[f].written = "full"

\* C2: no enqueue ever overwrites a record that was enqueued before: a file
\* written in full keeps its content in every later step.
C2_NeverOverwritten ==
    [][\A f \in DOMAIN files :
          files[f].written = "full" => files'[f] = files[f]]_vars

\* C4: after send_task returned T, the pending directory
\* <base_dir>/tasks/pending/ lists exactly one entry for T, named T.json.
C4_ListedInPending ==
    \A p \in Procs :
        Returned(p) =>
            Cardinality({f \in ListDir(pending_dir_of(config[p])) :
                            f[Len(f)] = result[p] \o ".json"}) = 1

\* Every record whose bytes are in some file of the file system.
RecordsOnDisk == UNION {files[f].data : f \in DOMAIN files}

\* C3 (state part): a call whose role is not among the enabled_roles of
\* the loaded config has failed with the invalid-role error once it is
\* past the check, and has created no task and returned nothing; every
\* record on disk is addressed to a role enabled for its project.
C3_State ==
    /\ \A p \in Procs :
          (/\ config[p] # NoConfig
           /\ pc[p] # "validate"
           /\ ~ In(args[p].role,
                   IF "enabled_roles" \in DOMAIN config[p]
                   THEN config[p].enabled_roles ELSE <<>>))
          => /\ raised[p] = InvalidRoleError
             /\ pc[p] \in {"except", "exit"}
             /\ task[p] = NoTask
             /\ result[p] = None
    /\ \A rec \in RecordsOnDisk :
          /\ rec.project \in DOMAIN Configs
          /\ "enabled_roles" \in DOMAIN Configs[rec.project]
          /\ In(rec.to, Configs[rec.project].enabled_roles)

\* C3 (step part): neither the step that rejects the role nor any later
\* step of the rejected call creates a directory or writes a file.
C3_Step ==
    \A p \in Procs :
        (StepOf(p) /\ raised'[p] = InvalidRoleError) => FsUnchanged

\* C3: a role outside enabled_roles (also when enabled_roles is absent) is
\* rejected with the invalid-role error before any task, directory or
\* file is created, so every task file has a `to` that is enabled.
C3_InvalidRoleRejectedFirst == []C3_State /\ [][C3_Step]_vars

C3_Witness ==
    \E p \in Procs :
        /\ args[p].project = "bare"
        /\ pc[p] = "exit"
        /\ raised[p] = InvalidRoleError
        /\ \E q \in Procs : Returned(q)

\* C5: the payload of a created task is {description: <argument>} merged
\* with the payload file's mapping, the file winning on every key it has
\* (also `description`); without a payload file it is {description: ...}.
C5_PayloadMerge ==
    \A p \in Procs :
        task[p] # NoTask =>
            LET base == [description |-> args[p].description]
                pf == args[p].payload_file
            IN  IF pf = None
                THEN task[p].payload = base
                ELSE LET file == json_load(pf).payload
                     IN  /\ DOMAIN task[p].payload = DOMAIN base \cup DOMAIN file
                         /\ \A k \in DOMAIN file : task[p].payload[k] = file[k]
                         /\ \A k \in DOMAIN base \ DOMAIN file :
                               task[p].payload[k] = base[k]

C5_Witness ==
    \E p \in Procs :
        /\ args[p].payload_file = "over.json"
        /\ Returned(p)
        /\ task[p].payload.description = "forged-description"
        /\ task[p].payload.description # args[p].description
        /\ task[p].payload.to = "forged-role"

ControlFieldsIntact(rec, a) ==
    /\ DOMAIN rec = {"task_id", "timestamp", "from", "to", "type",
                     "project", "payload"}
    /\ rec.type = "request"
    /\ rec.to = a.role
    /\ rec.project = a.project
    /\ rec.from = "user"
    /\ rec.task_id \in TaskIds
    /\ rec.timestamp \in Timestamps

\* C8: every record the producer creates has type "request", `to` = the
\* role argument, `project` = the project argument, and a payload file
\* with keys named like the control fields changes entries of `payload`
\* only: task_id, timestamp and from stay the generated ones.
C8_ControlFieldsFixed ==
    /\ \A p \in Procs : task[p] # NoTask => ControlFieldsIntact(task[p], args[p])
    /\ \A rec \in RecordsOnDisk :
          \E p \in Procs : rec = task[p] /\ ControlFieldsIntact(rec, args[p])

C8_Witness ==
    \E p \in Procs :
        /\ Returned(p)
        /\ args[p].payload_file = "over.json"
        /\ task[p].payload.type = "response"
        /\ task[p].payload.task_id = "forged-id"
        /\ task[p] \in RecordsOnDisk

\* C6 (state part): a call has returned a task id or has raised, never
\* both; a raised error is in main's except clause or already reported; a
\* call for a project without config has raised ConfigNotFoundError
\* without ever reaching the role check, and holds no config and no task.
C6_State ==
    \A p \in Procs :
        /\ ~ (Returned(p) /\ raised[p] # None)
        /\ pc[p] = "print" => Returned(p)
        /\ raised[p] # None <=> pc[p] = "except" \/ (pc[p] = "exit" /\ ~ Returned(p))
        /\ Returned(p) => result[p] = task[p].task_id /\ result[p] \in TaskIds
        /\ (args[p] # NoArgs /\ args[p].project \notin DOMAIN Configs
                /\ pc[p] # "load")
           => /\ raised[p] = ConfigNotFoundError
              /\ pc[p] \in {"except", "exit"}
              /\ config[p] = NoConfig
              /\ task[p] = NoTask

\* C6 (step part): an error, once raised, is never replaced or turned
\* into a result, the failing config load touches no file or directory.
C6_Step ==
    \A p \in Procs :
        /\ raised[p] # None => raised'[p] = raised[p] /\ result'[p] = None
        /\ (StepOf(p) /\ raised'[p] = ConfigNotFoundError) => FsUnchanged

PayloadErrors == {"JSONDecodeError", "FileNotFoundError"}
EarlyErrors == {ConfigNotFoundError, InvalidRoleError} \cup PayloadErrors

\* C9: a call that fails while loading the config, validating the role or
\* reading the payload file leaves the file system as it was: no step of
\* the call up to and including the construction of the task, and no step
\* of a call that failed there, creates a directory or writes a file.
C9_EarlyFailureNoEffect ==
    [][\A p \in Procs :
          (StepOf(p) /\ (pc[p] \in {"start", "load", "validate", "create"}
                         \/ raised'[p] \in EarlyErrors))
          => FsUnchanged]_vars

C9_Witness ==
    \E p \in Procs :
        /\ pc[p] = "exit"
        /\ raised[p] \in PayloadErrors
        /\ dirs = {}
        /\ DOMAIN files = {}

\* The id of producer p's call was drawn by no other call.
DistinctId(p) == task[p] # NoTask /\ Generators(task[p].task_id) = {p}

\* The file a call has created: the one named after the id it generated.
FileOf(p) == <<config[p].messaging.base_dir, "tasks", task[p].task_id \o ".json">>

\* C10 (state part): a successful call whose id no other call drew has
\* created exactly one file; it is named <returned id>.json, holds exactly
\* the call's record in full, and the record's task_id is the returned id.
C10_State ==
    \A p \in Procs :
        (Returned(p) /\ DistinctId(p)) =>
            /\ FileOf(p) \in DOMAIN files
            /\ files[FileOf(p)] = [written |-> "full", data |-> {task[p]}]
            /\ {f \in DOMAIN files : task[p] \in files[f].data} = {FileOf(p)}
            /\ task[p].task_id = result[p]
            /\ dirs = {<<"mail">>, <<"mail", "tasks">>}

\* C10 (step part): a file changes only in a step of a call that generated
\* the id the file is named after, and a record written in full under an
\* id no other call drew is never changed or removed.
C10_Step ==
    /\ \A f \in DOMAIN files :
          /\ f \in DOMAIN files'
          /\ files'[f] # files[f] =>
                \E p \in Procs : StepOf(p) /\ task[p] # NoTask /\ f = FileOf(p)
    /\ \A f \in (DOMAIN files') \ (DOMAIN files) :
          \E p \in Procs : StepOf(p) /\ task[p] # NoTask /\ f = FileOf(p)
    /\ \A p \in Procs :
          (DistinctId(p) /\ FileOf(p) \in DOMAIN files
              /\ files[FileOf(p)].written = "full"
              /\ Generators(task[p].task_id)' = {p})
          => files'[FileOf(p)] = files[FileOf(p)]

\* C10: concurrent producers with pairwise distinct task ids: in every
\* interleaving each successful call creates exactly one file whose name
\* stem equals the returned task_id and the task_id stored in it, and no
\* call modifies or removes a file written by another call.
C10_ConcurrentProducersIsolated == []C10_State /\ [][C10_Step]_vars

C10_Witness ==
    \E p, q \in Procs :
        /\ p # q
        /\ pc[p] = "exit" /\ pc[q] = "exit"
        /\ Returned(p) /\ Returned(q)
        /\ result[p] # result[q]
        /\ Cardinality(DOMAIN files) = 2

====
